---- MODULE Spec2Model ----
(***************************************************************************)
(* Model of localGPT/model/loader.py: class ModelLoader.                   *)
(*                                                                         *)
(* Python strings are sequences of one-character strings, so that          *)
(* str.lower, str.endswith, str.split, str.join and f-string formatting    *)
(* are computed character by character as the interpreter computes them.   *)
(* An optional constructor argument is a record [given, val]: given is     *)
(* FALSE for None.                                                         *)
(*                                                                         *)
(* The external libraries (transformers, auto_gptq, langchain) are the     *)
(* environment: each call into them either returns or raises, chosen       *)
(* nondeterministically.                                                   *)
(***************************************************************************)
EXTENDS Naturals, Sequences, FiniteSets, TLC

\* ------------------------------------------------------------------ bounds

\* load_model calls made on one instance.
MaxCalls == 2

\* Length of the free stem put in front of each model_safetensors ending.
MaxStem == 1

\* ----------------------------------------------------------------- strings

UPPER == <<"A","B","C","D","E","F","G","H","I","J","K","L","M","N","O","P","Q","R","S","T","U","V","W","X","Y","Z">>

LOWER == <<"a","b","c","d","e","f","g","h","i","j","k","l","m","n","o","p","q","r","s","t","u","v","w","x","y","z">>

\* str.lower on one character.
LowerChar(c) == IF \E i \in 1..Len(UPPER) : UPPER[i] = c THEN LOWER[CHOOSE i \in 1..Len(UPPER) : UPPER[i] = c] ELSE c

\* str.lower()
Lower(s) == [i \in 1..Len(s) |-> LowerChar(s[i])]

\* str.endswith(suffix)
EndsWith(s, suffix) == /\ Len(suffix) <= Len(s)
                       /\ SubSeq(s, Len(s) - Len(suffix) + 1, Len(s)) = suffix

\* str.split(sep) for a one-character separator: the list of the segments
\* between the separators ("".split(".") is [""]).
RECURSIVE SplitFrom(_, _, _)
SplitFrom(s, sep, cur) == IF s = <<>> THEN <<cur>> ELSE IF Head(s) = sep THEN <<cur>> \o SplitFrom(Tail(s), sep, <<>>) ELSE SplitFrom(Tail(s), sep, Append(cur, Head(s)))

Split(s, sep) == SplitFrom(s, sep, <<>>)

\* sep.join(parts)
RECURSIVE Join(_, _)
Join(sep, parts) == IF parts = <<>> THEN <<>> ELSE IF Len(parts) = 1 THEN parts[1] ELSE parts[1] \o <<sep>> \o Join(sep, Tail(parts))

\* list[:-1]
DropLast(parts) == SubSeq(parts, 1, Len(parts) - 1)

\* ----------------------------------------------------------- string values

HUGGINGFACE == <<"h","u","g","g","i","n","g","f","a","c","e">>

HUGGINGFACE_LLAMA == <<"h","u","g","g","i","n","g","f","a","c","e","-","l","l","a","m","a">>

GPTQ == <<"g","p","t","q">>

GGML == <<"g","g","m","l">>

CPU == <<"c","p","u">>

DOT_SAFETENSORS == <<".","s","a","f","e","t","e","n","s","o","r","s">>

\* The process-wide defaults imported from the localGPT package.
DEFAULT_DEVICE_TYPE == <<"c","u","d","a">>

DEFAULT_MODEL_TYPE == HUGGINGFACE

DEFAULT_MODEL_REPOSITORY == <<"T","B","/","v","7","B">>

DEFAULT_MODEL_SAFETENSORS == <<"m","o","d","e","l",".","s","a","f","e","t","e","n","s","o","r","s">>

\* ------------------------------------------------------ constructor inputs

None == [given |-> FALSE, val |-> <<>>]

Some(v) == [given |-> TRUE, val |-> v]

NoneBool == [given |-> FALSE, val |-> FALSE]

DeviceArgs == {None, Some(<<>>), Some(CPU), Some(<<"C","P","U">>), Some(<<"C","u","d","a">>)}

ModelTypeArgs == {None, Some(<<>>), Some(HUGGINGFACE), Some(<<"H","u","g","g","i","n","g","F","a","c","e">>), Some(HUGGINGFACE_LLAMA), Some(<<"H","U","G","G","I","N","G","F","A","C","E","-","L","l","a","m","a">>), Some(GPTQ), Some(<<"G","P","T","Q">>), Some(<<"G","p","t","Q">>), Some(GGML), Some(<<"G","G","m","l">>), Some(<<"g","g","u","f">>)}

RepositoryArgs == {None, Some(<<>>), Some(<<"O","r","g","/","m">>)}

\* Stems over a two-letter alphabet, of every length up to n.
RECURSIVE Stems(_)
Stems(n) == IF n = 0 THEN {<<>>} ELSE Stems(n - 1) \cup {Append(s, c) : s \in Stems(n - 1), c \in {"w", "."}}

SafetensorsEndings == {<<>>, DOT_SAFETENSORS, DOT_SAFETENSORS \o DOT_SAFETENSORS, <<".","S","a","f","e","T","e","n","s","o","r","s">>, <<"s","a","f","e","t","e","n","s","o","r","s">>, DOT_SAFETENSORS \o <<".","b","i","n">>}

SafetensorsArgs == {None} \cup {Some(stem \o ending) : stem \in Stems(MaxStem), ending \in SafetensorsEndings}

TritonArgs == {NoneBool, [given |-> TRUE, val |-> FALSE], [given |-> TRUE, val |-> TRUE]}

\* ------------------------------------------------------------------- state

VARIABLES args, device_type, model_type, model_repository, model_safetensors, use_triton, pc, calls, branch, before, events, kwargs, model, result, message, exit_status, fetches, successes, at_construction, first_run

vars == <<args, device_type, model_type, model_repository, model_safetensors, use_triton, pc, calls, branch, before, events, kwargs, model, result, message, exit_status, fetches, successes, at_construction, first_run>>

\* ------------------------------------------------------------- constructor

\* Python's `arg or default` for a string argument: None and "" are falsy.
OrDefault(arg, default) == IF arg.given /\ arg.val # <<>> THEN arg.val ELSE default

\* Python's `arg or False` for a bool argument: None and False are falsy.
OrFalse(arg) == IF arg.given /\ arg.val THEN arg.val ELSE FALSE

\* Mutant: the constructor forgets .lower() on device_type.
ModelLoader_DeviceNotLowered(a_device_type, a_model_type, a_model_repository, a_model_safetensors, a_use_triton) == [device_type |-> OrDefault(a_device_type, DEFAULT_DEVICE_TYPE), model_type |-> Lower(OrDefault(a_model_type, DEFAULT_MODEL_TYPE)), model_repository |-> OrDefault(a_model_repository, DEFAULT_MODEL_REPOSITORY), model_safetensors |-> OrDefault(a_model_safetensors, DEFAULT_MODEL_SAFETENSORS), use_triton |-> OrFalse(a_use_triton)]

\* ModelLoader.__init__: the five fields of the new instance.
ModelLoader(a_device_type, a_model_type, a_model_repository, a_model_safetensors, a_use_triton) == [device_type |-> Lower(OrDefault(a_device_type, DEFAULT_DEVICE_TYPE)), model_type |-> Lower(OrDefault(a_model_type, DEFAULT_MODEL_TYPE)), model_repository |-> OrDefault(a_model_repository, DEFAULT_MODEL_REPOSITORY), model_safetensors |-> OrDefault(a_model_safetensors, DEFAULT_MODEL_SAFETENSORS), use_triton |-> OrFalse(a_use_triton)]

\* -------------------------------------------------------------- strategies

\* Keyword options are two maps: the boolean options and the string options.
NoKwargs == [flags |-> <<>>, strs |-> <<>>]

\* load_huggingface_model: the options given to AutoModelForCausalLM.
HuggingfaceKwargs(dev) == LET base == [flags |-> ("low_cpu_mem_usage" :> TRUE) @@ ("resume_download" :> TRUE) @@ ("trust_remote_code" :> FALSE), strs |-> <<>>]
                          IN  IF dev # CPU THEN [base EXCEPT !.strs = ("device_map" :> dev) @@ ("torch_dtype" :> <<"f","l","o","a","t","1","6">>)] ELSE base

\* Mutant: the normalization keeps only the text before the first dot.
StripSafetensors_FirstSegment(s) == IF EndsWith(s, DOT_SAFETENSORS) THEN Split(s, ".")[1] ELSE s

\* Mutant: the normalization tests `".safetensors" in s` instead of endswith.
StripSafetensors_Contains(s) == IF \E i \in 1..Len(s) : \E j \in i..Len(s) : SubSeq(s, i, j) = DOT_SAFETENSORS THEN Join(".", DropLast(Split(s, "."))) ELSE s

\* load_gptq_model: the in-place normalization of self.model_safetensors.
StripSafetensors(s) == IF EndsWith(s, DOT_SAFETENSORS) THEN Join(".", DropLast(Split(s, "."))) ELSE s

\* f"{self.device_type}:0"
DeviceString(dev) == dev \o <<":", "0">>

\* Mutant: the CUDA options are set on every device.
GptqKwargs_AnyDevice(dev, safetensors, triton) == [flags |-> ("low_cpu_mem_usage" :> TRUE) @@ ("resume_download" :> TRUE) @@ ("trust_remote_code" :> FALSE) @@ ("use_safetensors" :> TRUE) @@ ("use_cuda_fp16" :> TRUE) @@ ("use_triton" :> triton), strs |-> ("device_map" :> <<"a","u","t","o">>) @@ ("model_safetensors" :> safetensors) @@ ("device" :> DeviceString(dev))]

\* load_gptq_model: the options given to AutoGPTQForCausalLM.from_quantized.
GptqKwargs(dev, safetensors, triton) == LET base == [flags |-> ("low_cpu_mem_usage" :> TRUE) @@ ("resume_download" :> TRUE) @@ ("trust_remote_code" :> FALSE) @@ ("use_safetensors" :> TRUE), strs |-> ("device_map" :> <<"a","u","t","o">>) @@ ("model_safetensors" :> safetensors)]
                                        IN  IF dev # CPU THEN [flags |-> base.flags @@ ("use_cuda_fp16" :> TRUE) @@ ("use_triton" :> triton), strs |-> base.strs @@ ("device" :> DeviceString(dev))] ELSE base

\* ---------------------------------------------------------------- dispatch

\* Mutant: the ggml branch is missing, so ggml falls to the else branch.
Dispatch_NoGgmlBranch(mt) == IF Lower(mt) = HUGGINGFACE THEN "load_huggingface_model" ELSE IF Lower(mt) = HUGGINGFACE_LLAMA THEN "load_huggingface_llama_model" ELSE IF Lower(mt) = GPTQ THEN "load_gptq_model" ELSE "AttributeError"

\* Mutant: the else branch raises NotImplementedError like the ggml branch.
Dispatch_ElseNotImplemented(mt) == IF Lower(mt) = HUGGINGFACE THEN "load_huggingface_model" ELSE IF Lower(mt) = HUGGINGFACE_LLAMA THEN "load_huggingface_llama_model" ELSE IF Lower(mt) = GPTQ THEN "load_gptq_model" ELSE "NotImplementedError"

\* Mutant: the first test is startswith("huggingface"), which also takes
\* "huggingface-llama".
Dispatch_PrefixMatch(mt) == IF Len(mt) >= Len(HUGGINGFACE) /\ SubSeq(Lower(mt), 1, Len(HUGGINGFACE)) = HUGGINGFACE THEN "load_huggingface_model" ELSE IF Lower(mt) = GPTQ THEN "load_gptq_model" ELSE IF Lower(mt) = GGML THEN "NotImplementedError" ELSE "AttributeError"

\* load_model's if/elif chain: the branch taken for a model_type.
Dispatch(mt) == IF Lower(mt) = HUGGINGFACE THEN "load_huggingface_model" ELSE IF Lower(mt) = HUGGINGFACE_LLAMA THEN "load_huggingface_llama_model" ELSE IF Lower(mt) = GPTQ THEN "load_gptq_model" ELSE IF Lower(mt) = GGML THEN "NotImplementedError" ELSE "AttributeError"

\* The model types the AttributeError message lists, in the message's order.
UnsupportedMessage == <<HUGGINGFACE, HUGGINGFACE_LLAMA, GGML, GPTQ>>

Strategies == {"load_huggingface_model", "load_huggingface_llama_model", "load_gptq_model"}

\* The first program point of a strategy.
Entry(strategy) == CASE strategy = "load_huggingface_model" -> "hf_config" [] strategy = "load_huggingface_llama_model" -> "llama_tokenizer" [] strategy = "load_gptq_model" -> "gptq_tokenizer"

\* Mutant: the except clause is missing, so OutOfMemoryError propagates.
OnModelLoadError_Uncaught(exception) == "propagate"

\* load_huggingface_model's handler around the model load, lines 108-113:
\* only torch.cuda.OutOfMemoryError is caught, and the handler calls sys.exit(1).
OnModelLoadError(exception) == IF exception = "OutOfMemoryError" THEN "sys.exit" ELSE "propagate"

\* ------------------------------------------------------------------- Init

Init == \E a \in DeviceArgs, b \in ModelTypeArgs, c \in RepositoryArgs, d \in SafetensorsArgs, e \in TritonArgs :
          LET self == ModelLoader(a, b, c, d, e)
          IN  /\ args = [device_type |-> a, model_type |-> b, model_repository |-> c, model_safetensors |-> d, use_triton |-> e]
              /\ device_type = self.device_type
              /\ model_type = self.model_type
              /\ model_repository = self.model_repository
              /\ model_safetensors = self.model_safetensors
              /\ use_triton = self.use_triton
              /\ at_construction = self
              /\ pc = "idle"
              /\ calls = 0
              /\ branch = "none"
              /\ before = <<>>
              /\ events = <<>>
              /\ kwargs = NoKwargs
              /\ model = "none"
              /\ result = "none"
              /\ message = <<>>
              /\ exit_status = 0
              /\ fetches = 0
              /\ successes = 0
              /\ first_run = [started |-> FALSE, after |-> <<>>, passed |-> None]

\* What no step after construction assigns, and the per-call bookkeeping only
\* load_model's first step sets.
config == <<args, device_type, model_type, model_repository, use_triton, at_construction, calls, branch, before, message>>

\* A library call that returned: the next program point is reached.
Returned(call, next) == /\ events' = Append(events, call)
                        /\ pc' = next
                        /\ UNCHANGED result

\* A library call that raised an exception nothing catches: it leaves
\* load_model, the caller sees it and the instance is idle again.
Raised(call, exception) == /\ events' = events \o <<call, "raise " \o exception>>
                           /\ pc' = "idle"
                           /\ result' = exception

\* ----------------------------------------------------------------- actions

\* load_model, lines 225-241: the dispatch on self.model_type.
load_model == /\ pc = "idle"
              /\ calls < MaxCalls
              /\ calls' = calls + 1
              /\ before' = model_safetensors
              /\ kwargs' = NoKwargs
              /\ model' = "none"
              /\ branch' = Dispatch(model_type)
              /\ events' = IF branch' \in Strategies THEN <<branch'>> ELSE <<>>
              /\ IF branch' \in Strategies
                 THEN /\ pc' = Entry(branch')
                      /\ result' = "none"
                      /\ message' = <<>>
                 ELSE /\ pc' = "idle"
                      /\ result' = branch'
                      /\ message' = IF branch' = "AttributeError" THEN UnsupportedMessage ELSE <<>>
              /\ UNCHANGED <<args, device_type, model_type, model_repository, use_triton, at_construction, model_safetensors, exit_status, fetches, successes, first_run>>

\* load_huggingface_model, line 85: AutoConfig.from_pretrained.
hf_load_config == /\ pc = "hf_config"
                  /\ \E outcome \in {"ok", "Exception"} : IF outcome = "ok" THEN Returned("AutoConfig.from_pretrained", "hf_tokenizer") ELSE Raised("AutoConfig.from_pretrained", outcome)
                  /\ UNCHANGED <<config, model_safetensors, kwargs, model, exit_status, fetches, successes, first_run>>

\* load_huggingface_model, line 88: AutoTokenizer.from_pretrained.
hf_load_tokenizer == /\ pc = "hf_tokenizer"
                     /\ \E outcome \in {"ok", "Exception"} : IF outcome = "ok" THEN Returned("AutoTokenizer.from_pretrained", "hf_model") ELSE Raised("AutoTokenizer.from_pretrained", outcome)
                     /\ UNCHANGED <<config, model_safetensors, kwargs, model, exit_status, fetches, successes, first_run>>

\* load_huggingface_model, lines 91-121: the options, the model load with its
\* out-of-memory handler, the weight tying of a model that is no tuple, and
\* the return of (model, tokenizer).
hf_load_model == /\ pc = "hf_model"
                 /\ kwargs' = HuggingfaceKwargs(device_type)
                 /\ \E outcome \in {"single", "tuple", "OutOfMemoryError", "Exception"} :
                      IF outcome \in {"single", "tuple"}
                      THEN /\ events' = events \o <<"AutoModelForCausalLM.from_pretrained">> \o (IF outcome = "tuple" THEN <<>> ELSE <<"tie_weights">>) \o <<"return">>
                           /\ model' = outcome
                           /\ pc' = "generation_config"
                           /\ UNCHANGED <<result, exit_status>>
                      ELSE IF OnModelLoadError(outcome) = "sys.exit"
                           THEN /\ events' = events \o <<"AutoModelForCausalLM.from_pretrained", "raise " \o outcome, "sys.exit">>
                                /\ pc' = "exited"
                                /\ exit_status' = 1
                                /\ result' = "SystemExit"
                                /\ UNCHANGED model
                           ELSE /\ Raised("AutoModelForCausalLM.from_pretrained", outcome)
                                /\ UNCHANGED <<model, exit_status>>
                 /\ UNCHANGED <<config, model_safetensors, fetches, successes, first_run>>

\* load_huggingface_llama_model, line 134: LlamaTokenizer.from_pretrained.
llama_load_tokenizer == /\ pc = "llama_tokenizer"
                        /\ \E outcome \in {"ok", "Exception"} : IF outcome = "ok" THEN Returned("LlamaTokenizer.from_pretrained", "llama_model") ELSE Raised("LlamaTokenizer.from_pretrained", outcome)
                        /\ UNCHANGED <<config, model_safetensors, kwargs, model, exit_status, fetches, successes, first_run>>

\* load_huggingface_llama_model, lines 137-139: LlamaForCausalLM.from_pretrained
\* with no options and no out-of-memory handler, and the return.
llama_load_model == /\ pc = "llama_model"
                    /\ \E outcome \in {"single", "OutOfMemoryError", "Exception"} :
                         IF outcome = "single"
                         THEN /\ events' = events \o <<"LlamaForCausalLM.from_pretrained", "return">>
                              /\ model' = outcome
                              /\ pc' = "generation_config"
                              /\ UNCHANGED result
                         ELSE /\ Raised("LlamaForCausalLM.from_pretrained", outcome)
                              /\ UNCHANGED model
                    /\ UNCHANGED <<config, model_safetensors, kwargs, exit_status, fetches, successes, first_run>>

\* load_gptq_model, lines 159-165: the in-place normalization of
\* self.model_safetensors, then AutoTokenizer.from_pretrained(use_fast=True).
gptq_load_tokenizer == /\ pc = "gptq_tokenizer"
                       /\ model_safetensors' = StripSafetensors(model_safetensors)
                       /\ first_run' = IF first_run.started THEN first_run ELSE [first_run EXCEPT !.started = TRUE, !.after = model_safetensors']
                       /\ \E outcome \in {"ok", "Exception"} : IF outcome = "ok" THEN Returned("AutoTokenizer.from_pretrained", "gptq_model") ELSE Raised("AutoTokenizer.from_pretrained", outcome)
                       /\ UNCHANGED <<config, kwargs, model, exit_status, fetches, successes>>

\* load_gptq_model, lines 167-190: the options, AutoGPTQForCausalLM.from_quantized
\* with no out-of-memory handler, and the return.
gptq_load_model == /\ pc = "gptq_model"
                   /\ kwargs' = GptqKwargs(device_type, model_safetensors, use_triton)
                   /\ first_run' = IF first_run.passed.given THEN first_run ELSE [first_run EXCEPT !.passed = Some(kwargs'.strs["model_safetensors"])]
                   /\ \E outcome \in {"single", "OutOfMemoryError", "Exception"} :
                        IF outcome = "single"
                        THEN /\ events' = events \o <<"AutoGPTQForCausalLM.from_quantized", "return">>
                             /\ model' = outcome
                             /\ pc' = "generation_config"
                             /\ UNCHANGED result
                        ELSE /\ Raised("AutoGPTQForCausalLM.from_quantized", outcome)
                             /\ UNCHANGED model
                   /\ UNCHANGED <<config, model_safetensors, exit_status, fetches, successes>>

\* Mutant: the generation configuration is cached after the first successful
\* load and not fetched again.
fetch_generation_config_cached == /\ pc = "generation_config"
                                  /\ IF successes > 0
                                     THEN /\ pc' = "pipeline"
                                          /\ UNCHANGED <<events, result, fetches>>
                                     ELSE /\ fetches' = fetches + 1
                                          /\ \E outcome \in {"ok", "Exception"} : IF outcome = "ok" THEN Returned("GenerationConfig.from_pretrained", "pipeline") ELSE Raised("GenerationConfig.from_pretrained", outcome)
                                  /\ UNCHANGED <<config, model_safetensors, kwargs, model, exit_status, successes, first_run>>

\* load_model, line 244: GenerationConfig.from_pretrained(self.model_repository).
fetch_generation_config == /\ pc = "generation_config"
                           /\ fetches' = fetches + 1
                           /\ \E outcome \in {"ok", "Exception"} : IF outcome = "ok" THEN Returned("GenerationConfig.from_pretrained", "pipeline") ELSE Raised("GenerationConfig.from_pretrained", outcome)
                           /\ UNCHANGED <<config, model_safetensors, kwargs, model, exit_status, successes, first_run>>

\* load_model, lines 249-253, and create_pipeline: the pipeline is assembled,
\* wrapped and returned to the caller.
create_pipeline == /\ pc = "pipeline"
                   /\ \E outcome \in {"ok", "Exception"} :
                        IF outcome = "ok"
                        THEN /\ events' = Append(events, "pipeline")
                             /\ pc' = "idle"
                             /\ result' = "HuggingFacePipeline"
                             /\ successes' = successes + 1
                        ELSE /\ Raised("pipeline", outcome)
                             /\ UNCHANGED successes
                   /\ UNCHANGED <<config, model_safetensors, kwargs, model, exit_status, fetches, first_run>>

Next == \/ load_model
        \/ hf_load_config
        \/ hf_load_tokenizer
        \/ hf_load_model
        \/ llama_load_tokenizer
        \/ llama_load_model
        \/ gptq_load_tokenizer
        \/ gptq_load_model
        \/ fetch_generation_config
        \/ create_pipeline

Spec == Init /\ [][Next]_vars

\* ================================================================== claims

\* v spells r with some of its letters in upper case (r is lower case).
IsCaseVariant(v, r) == /\ Len(v) = Len(r)
                       /\ \A i \in 1..Len(r) : v[i] = r[i] \/ \E k \in 1..Len(LOWER) : LOWER[k] = r[i] /\ UPPER[k] = v[i]

HasUpper(s) == \E i \in 1..Len(s) : \E k \in 1..Len(UPPER) : UPPER[k] = s[i]

Recognized == {HUGGINGFACE, HUGGINGFACE_LLAMA, GPTQ, GGML}

\* How often a call of the current load_model appears in its event log.
Count(e) == Cardinality({i \in 1..Len(events) : events[i] = e})

Loads == {"AutoConfig.from_pretrained", "AutoTokenizer.from_pretrained", "AutoModelForCausalLM.from_pretrained", "LlamaTokenizer.from_pretrained", "LlamaForCausalLM.from_pretrained", "AutoGPTQForCausalLM.from_quantized", "tie_weights", "GenerationConfig.from_pretrained", "pipeline"}

NothingLoaded == /\ \A i \in 1..Len(events) : events[i] \notin Loads \cup Strategies
                 /\ kwargs = NoKwargs
                 /\ model = "none"
                 /\ pc = "idle"

\* The value the constructor was given for a field, or absent.
Absent(arg) == ~arg.given \/ arg.val = <<>>

AbsentBool(arg) == ~arg.given \/ arg.val = FALSE

\* C1: with model_type "ggml", every load_model call fails with
\* NotImplementedError and makes no library call at all: no tokenizer load, no
\* model load, no generation-config fetch, no pipeline assembly, in this call
\* or in any earlier call on the instance.
C1_GgmlNotImplemented == (model_type = GGML /\ calls > 0) => /\ result = "NotImplementedError"
                                                               /\ NothingLoaded
                                                               /\ fetches = 0
                                                               /\ successes = 0

C1_Witness == /\ model_type = GGML
              /\ args.model_type.val # GGML
              /\ calls = 2
              /\ result = "NotImplementedError"

\* C2: with a model_type that is none of the four recognized values, every
\* load_model call fails with AttributeError (not NotImplementedError), the
\* message lists exactly the four recognized values, once each, and no
\* strategy, fetch or pipeline assembly is run.
C2_UnsupportedModelType == (model_type \notin Recognized /\ calls > 0) => /\ result = "AttributeError"
                                                                            /\ result # "NotImplementedError"
                                                                            /\ {message[i] : i \in 1..Len(message)} = Recognized
                                                                            /\ Len(message) = 4
                                                                            /\ NothingLoaded
                                                                            /\ fetches = 0
                                                                            /\ successes = 0

C2_Witness == /\ model_type = <<"g","g","u","f">>
              /\ calls > 0
              /\ result = "AttributeError"

\* C3: when the model load of the full-model strategy raises
\* OutOfMemoryError, the process has exited with status 1 (non-zero): no model
\* or pipeline is returned, and no weight tying, generation-config fetch or
\* pipeline assembly follows the out-of-memory condition.
C3_OutOfMemoryExits == (branch = "load_huggingface_model" /\ Count("raise OutOfMemoryError") > 0) => /\ pc = "exited"
                                                                                                       /\ exit_status = 1
                                                                                                       /\ exit_status # 0
                                                                                                       /\ result = "SystemExit"
                                                                                                       /\ model = "none"
                                                                                                       /\ Count("tie_weights") = 0
                                                                                                       /\ Count("return") = 0
                                                                                                       /\ Count("GenerationConfig.from_pretrained") = 0
                                                                                                       /\ Count("pipeline") = 0
                                                                                                       /\ ~ENABLED Next

C3_Witness == /\ model_type = HUGGINGFACE
              /\ Count("raise OutOfMemoryError") = 1
              /\ pc = "exited"

\* The dispatch table of load_model, by lower-case value.
TableAction(r) == CASE r = HUGGINGFACE -> "load_huggingface_model" [] r = HUGGINGFACE_LLAMA -> "load_huggingface_llama_model" [] r = GPTQ -> "load_gptq_model" [] r = GGML -> "NotImplementedError"

StrategiesRun == Cardinality({i \in 1..Len(events) : events[i] \in Strategies})

\* C4: for every upper/lower-case spelling of a recognized model type given to
\* the constructor, load_model takes the dispatch action of the lower-case
\* value, and each call enters exactly one strategy (none for ggml, whose
\* action is the NotImplementedError failure).
C4_CaseInsensitiveDispatch == \A r \in Recognized : (calls > 0 /\ args.model_type.given /\ IsCaseVariant(args.model_type.val, r)) => /\ branch = TableAction(r)
                                                                                                                                    /\ StrategiesRun = (IF r = GGML THEN 0 ELSE 1)
                                                                                                                                    /\ (r = GGML => result = "NotImplementedError")
                                                                                                                                    /\ (r # GGML => events[1] = TableAction(r))

C4_Witness == /\ args.model_type.val = <<"G","p","t","Q">>
              /\ branch = "load_gptq_model"
              /\ Count("AutoGPTQForCausalLM.from_quantized") = 1

FromQuantizedCalled == Count("AutoGPTQForCausalLM.from_quantized") > 0

\* The string s without its last n characters.
Chop(s, n) == SubSeq(s, 1, Len(s) - n)

\* C5: in the quantized strategy the basename given to from_quantized is the
\* value model_safetensors had when the strategy started, without its trailing
\* ".safetensors" if it ended with one (one suffix only), and that value
\* itself otherwise.
C5_BasenameStripped == FromQuantizedCalled => kwargs.strs["model_safetensors"] = (IF EndsWith(before, DOT_SAFETENSORS) THEN Chop(before, 12) ELSE before)

C5_Witness == /\ FromQuantizedCalled
              /\ before = <<"w">> \o DOT_SAFETENSORS \o DOT_SAFETENSORS
              /\ kwargs.strs["model_safetensors"] = <<"w">> \o DOT_SAFETENSORS

\* C6: each field of a new ModelLoader holds the process-wide default when its
\* argument is None or empty (False for use_triton), and otherwise the
\* argument: spelled in lower case for device_type and model_type, unchanged
\* for model_repository, model_safetensors and use_triton.
C6_ConstructorDefaults == calls = 0 =>
                          LET f == [device_type |-> device_type, model_type |-> model_type, model_repository |-> model_repository, model_safetensors |-> model_safetensors, use_triton |-> use_triton]
                          IN  /\ f = at_construction
                              /\ Absent(args.device_type) => f.device_type = DEFAULT_DEVICE_TYPE
                              /\ Absent(args.model_type) => f.model_type = DEFAULT_MODEL_TYPE
                              /\ Absent(args.model_repository) => f.model_repository = DEFAULT_MODEL_REPOSITORY
                              /\ Absent(args.model_safetensors) => f.model_safetensors = DEFAULT_MODEL_SAFETENSORS
                              /\ AbsentBool(args.use_triton) => f.use_triton = FALSE
                              /\ ~Absent(args.device_type) => IsCaseVariant(args.device_type.val, f.device_type) /\ ~HasUpper(f.device_type)
                              /\ ~Absent(args.model_type) => IsCaseVariant(args.model_type.val, f.model_type) /\ ~HasUpper(f.model_type)
                              /\ ~Absent(args.model_repository) => f.model_repository = args.model_repository.val
                              /\ ~Absent(args.model_safetensors) => f.model_safetensors = args.model_safetensors.val
                              /\ ~AbsentBool(args.use_triton) => f.use_triton = args.use_triton.val

C6_Witness == /\ calls = 0
              /\ args.device_type.val = <<"C","P","U">>
              /\ device_type = CPU
              /\ args.model_type = Some(<<>>)
              /\ model_type = DEFAULT_MODEL_TYPE
              /\ ~args.model_repository.given
              /\ model_repository = DEFAULT_MODEL_REPOSITORY
              /\ args.model_safetensors.val = <<"w">>
              /\ args.use_triton.given
              /\ use_triton

\* C7: the options of from_quantized on "cpu" are the six device-independent
\* ones, with no use_cuda_fp16, use_triton or device key whatever use_triton
\* is; on any other device they also hold use_cuda_fp16 = True, the configured
\* use_triton and device = "<device_type>:0".
C7_GptqDeviceOptions == FromQuantizedCalled => /\ {"low_cpu_mem_usage", "resume_download", "trust_remote_code", "use_safetensors"} \subseteq DOMAIN kwargs.flags
                                               /\ {"device_map", "model_safetensors"} \subseteq DOMAIN kwargs.strs
                                               /\ device_type = CPU => /\ DOMAIN kwargs.flags = {"low_cpu_mem_usage", "resume_download", "trust_remote_code", "use_safetensors"}
                                                                       /\ DOMAIN kwargs.strs = {"device_map", "model_safetensors"}
                                               /\ device_type # CPU => /\ DOMAIN kwargs.flags = {"low_cpu_mem_usage", "resume_download", "trust_remote_code", "use_safetensors", "use_cuda_fp16", "use_triton"}
                                                                       /\ DOMAIN kwargs.strs = {"device_map", "model_safetensors", "device"}
                                                                       /\ kwargs.flags["use_cuda_fp16"] = TRUE
                                                                       /\ kwargs.flags["use_triton"] = use_triton
                                                                       /\ kwargs.strs["device"] = device_type \o <<":", "0">>

C7_Witness == /\ FromQuantizedCalled
              /\ device_type = CPU
              /\ use_triton
              /\ "use_triton" \notin DOMAIN kwargs.flags

C7_WitnessCuda == /\ FromQuantizedCalled
                  /\ args.device_type.val = <<"C","u","d","a">>
                  /\ use_triton
                  /\ kwargs.strs["device"] = <<"c","u","d","a",":","0">>

\* C8: no step of load_model, in any strategy and whether it returns or
\* raises, changes device_type, model_type, model_repository or use_triton;
\* model_safetensors changes only in the quantized strategy, and only by
\* losing one trailing ".safetensors".
C8_ConfigReadOnly == [][/\ device_type' = device_type
                        /\ model_type' = model_type
                        /\ model_repository' = model_repository
                        /\ use_triton' = use_triton
                        /\ device_type' = at_construction.device_type
                        /\ model_type' = at_construction.model_type
                        /\ model_repository' = at_construction.model_repository
                        /\ use_triton' = at_construction.use_triton
                        /\ model_safetensors' # model_safetensors => /\ branch = "load_gptq_model"
                                                                     /\ pc = "gptq_tokenizer"
                                                                     /\ model_safetensors = model_safetensors' \o DOT_SAFETENSORS]_vars

C8_Witness == /\ model_safetensors # at_construction.model_safetensors
              /\ at_construction.model_safetensors = model_safetensors \o DOT_SAFETENSORS
              /\ result = "Exception"
              /\ calls = 2

Raises == {"raise Exception", "raise OutOfMemoryError"}

\* C9: in every load_model call the generation configuration is fetched only
\* right after the strategy returned, and the pipeline is assembled only right
\* after a fetch that did not raise; a call that returns a pipeline made
\* exactly one fetch and one assembly; nothing is cached, so calls that all
\* returned a pipeline made one fetch each; and after a raise nothing more is
\* called, so a failed strategy or fetch assembles no pipeline.
C9_FetchThenAssemble == /\ \A i \in 1..Len(events) : events[i] = "GenerationConfig.from_pretrained" => (i > 1 /\ events[i - 1] = "return")
                        /\ \A i \in 1..Len(events) : events[i] = "pipeline" => (i > 1 /\ events[i - 1] = "GenerationConfig.from_pretrained")
                        /\ \A i \in 1..Len(events) : events[i] \in Raises => (i = Len(events) \/ (i + 1 = Len(events) /\ events[i + 1] = "sys.exit"))
                        /\ result = "HuggingFacePipeline" => /\ Count("GenerationConfig.from_pretrained") = 1
                                                             /\ Count("pipeline") = 1
                                                             /\ events[Len(events)] = "pipeline"
                        /\ (pc = "idle" /\ calls > 0 /\ result # "HuggingFacePipeline") => (result \in {"Exception", "OutOfMemoryError", "NotImplementedError", "AttributeError"} /\ (Count("pipeline") > 0 => events[Len(events) - 1] = "pipeline"))
                        /\ successes <= fetches
                        /\ fetches <= calls
                        /\ (pc = "idle" /\ successes = calls) => fetches = calls

C9_Witness == /\ calls = 2
              /\ successes = 2
              /\ fetches = 2
              /\ result = "HuggingFacePipeline"
              /\ pc = "idle"

\* C10: once the quantized strategy has run on an instance, every further run
\* leaves model_safetensors as the first run left it and gives from_quantized
\* the basename the first run gave it.
C10_NormalizationIdempotent == first_run.started => /\ model_safetensors = first_run.after
                                                    /\ FromQuantizedCalled => kwargs.strs["model_safetensors"] = first_run.passed.val

====
